---- MODULE Spec2Model ----
(***************************************************************************)
(* Byte-level model of the fstore block store: the Store engine of         *)
(* src/src/store.rs over the DataHeader of src/src/data_header.rs and the  *)
(* hashers of src/src/crypto.rs.  The file is a sequence of bytes, the     *)
(* file cursor an offset into it, and every operation of Store is one      *)
(* action that performs the reads, writes and seeks of its code in order.  *)
(***************************************************************************)
EXTENDS Integers, Sequences, FiniteSets, TLC

(* ---------------------------------------------------------------------- *)
(* Bounds of the model                                                     *)
(* ---------------------------------------------------------------------- *)
\* number of Store::write calls of one behaviour
MaxAppends == 2


(* ---------------------------------------------------------------------- *)
(* Program constants                                                       *)
(* ---------------------------------------------------------------------- *)
\* "FSTOREV.01BINARYR01" as ASCII bytes
STORE_VERSIONTAG ==
  <<70, 83, 84, 79, 82, 69, 86, 46, 48, 49, 66, 73, 78, 65, 82, 89, 82, 48, 49>>
STORE_VERSIONNUM == 1
STATE_FLAG_ALLOC == 0
STATE_FLAG_DELETE == 1
DEFAULT_ADDR_NEXT == 0

\* size_of::<u64>() and size_of::<u32>()
SizeOfU64 == 8
SizeOfU32 == 4

(* ---------------------------------------------------------------------- *)
(* Bytes and little-endian integers                                        *)
(* ---------------------------------------------------------------------- *)
Min(a, b) == IF a < b THEN a ELSE b

Zeros(n) == [i \in 1..n |-> 0]

\* v.to_le_bytes() for an integer of n bytes
RECURSIVE ToLeBytes(_, _)
ToLeBytes(v, n) ==
  IF n = 0 THEN <<>> ELSE <<v % 256>> \o ToLeBytes(v \div 256, n - 1)

\* Values of 2^24 and more are all represented by Saturated: the model holds
\* no length or offset that large, so they are only ever compared with
\* smaller numbers.
Saturated == 256 * 256 * 256

\* uN::from_le_bytes(b)
FromLeBytes(b) ==
  IF \E i \in 4..Len(b) : b[i] # 0
    THEN Saturated
    ELSE (IF Len(b) >= 1 THEN b[1] ELSE 0)
         + (IF Len(b) >= 2 THEN 256 * b[2] ELSE 0)
         + (IF Len(b) >= 3 THEN 65536 * b[3] ELSE 0)

\* String::from_utf8(b).is_ok(): the well-formed byte sequences of UTF-8
RECURSIVE IsUtf8(_)
IsUtf8(b) ==
  LET n == Len(b)
      Cont(i, lo, hi) == i <= n /\ b[i] >= lo /\ b[i] <= hi
      Rest(k) == IsUtf8(SubSeq(b, k + 1, n))
  IN IF n = 0 THEN TRUE
     ELSE IF b[1] < 128 THEN Rest(1)
     ELSE IF b[1] >= 194 /\ b[1] <= 223 THEN Cont(2, 128, 191) /\ Rest(2)
     ELSE IF b[1] = 224 THEN Cont(2, 160, 191) /\ Cont(3, 128, 191) /\ Rest(3)
     ELSE IF b[1] = 237 THEN Cont(2, 128, 159) /\ Cont(3, 128, 191) /\ Rest(3)
     ELSE IF b[1] >= 225 /\ b[1] <= 239
       THEN Cont(2, 128, 191) /\ Cont(3, 128, 191) /\ Rest(3)
     ELSE IF b[1] = 240
       THEN Cont(2, 144, 191) /\ Cont(3, 128, 191) /\ Cont(4, 128, 191) /\ Rest(4)
     ELSE IF b[1] >= 241 /\ b[1] <= 243
       THEN Cont(2, 128, 191) /\ Cont(3, 128, 191) /\ Cont(4, 128, 191) /\ Rest(4)
     ELSE IF b[1] = 244
       THEN Cont(2, 128, 143) /\ Cont(3, 128, 191) /\ Cont(4, 128, 191) /\ Rest(4)
     ELSE FALSE

(* ---------------------------------------------------------------------- *)
(* std::fs::File: read, write and seek on a byte sequence and a cursor     *)
(* ---------------------------------------------------------------------- *)
\* the bytes File::read delivers for a buffer of n bytes with the cursor at p
FileRead(f, p, n) ==
  IF p >= Len(f) THEN <<>> ELSE SubSeq(f, p + 1, Min(p + n, Len(f)))

\* the caller's buffer after File::read stored `got` at its front
FillBuffer(buf, got) == got \o SubSeq(buf, Len(got) + 1, Len(buf))

\* the file after File::write of `bytes` with the cursor at p (a write past
\* the end leaves a gap of zero bytes)
FileWrite(f, p, bytes) ==
  IF Len(bytes) = 0 THEN f
  ELSE IF p >= Len(f) THEN f \o Zeros(p - Len(f)) \o bytes
  ELSE SubSeq(f, 1, p) \o bytes \o SubSeq(f, p + Len(bytes) + 1, Len(f))

(* ---------------------------------------------------------------------- *)
(* crypto.rs: the hashers                                                  *)
(* ---------------------------------------------------------------------- *)
Hashers == {"B3", "Null"}

\* BlockHasher::size()
HasherSize(h) == IF h = "B3" THEN 256 ELSE 0

\* length of the byte slice BlockHasher::hash returns
B3DigestLen == 32

\* blake3::hash stands for a fixed function of the input bytes: a weighted
\* checksum of the bytes and their number, spread over the 32 bytes of the
\* digest.  The sum is taken by halving the range of positions.
RECURSIVE Checksum(_, _, _)
Checksum(input, lo, hi) ==
  IF lo > hi THEN 0
  ELSE IF lo = hi THEN ((lo * lo + 3 * lo + 1) * (input[lo] + 1)) % 251
  ELSE LET mid == (lo + hi) \div 2
       IN (Checksum(input, lo, mid) + Checksum(input, mid + 1, hi)) % 251

Blake3(input) ==
  LET c == (Checksum(input, 1, Len(input)) + 7 * Len(input)) % 251
  IN [k \in 1..B3DigestLen |-> (c + 3 * k) % 256]

\* BlockHasher::hash(input)
Hash(h, input) == IF h = "B3" THEN Blake3(input) ELSE <<0>>

(* ---------------------------------------------------------------------- *)
(* data_header.rs: DataHeader                                              *)
(* ---------------------------------------------------------------------- *)
\* DataHeader::new()
DataHeaderNew ==
  [size_data |-> 0, state_flag |-> STATE_FLAG_ALLOC, address_next |-> DEFAULT_ADDR_NEXT]

\* BlockSerializer::serialize(data): the header bytes
Serialize(h, hdr, data) ==
  ToLeBytes(hdr.size_data, SizeOfU64)
    \o ToLeBytes(hdr.state_flag, SizeOfU32)
    \o ToLeBytes(hdr.address_next, SizeOfU64)
    \o Hash(h, data)

\* BlockSerializer::deserialize(data): the fields are assigned before the
\* hash comparison, so they are set also when the comparison fails
Deserialize(h, data) ==
  [hdr |-> [size_data |-> FromLeBytes(SubSeq(data, 1, 8)),
            state_flag |-> FromLeBytes(SubSeq(data, 9, 12)),
            address_next |-> FromLeBytes(SubSeq(data, 13, 20))],
   ok |-> Hash(h, data) = SubSeq(data, 21, Len(data))]

\* BlockSerializer::size()
HeaderSize(h) == (SizeOfU64 * 2) + SizeOfU32 + HasherSize(h)

\* BlockSerializer::read_ahead_size()
ReadAheadSize == SizeOfU64

\* BlockSerializer::read_ahead(buffer)
ReadAhead(h, buffer) == SizeOfU64 + SizeOfU32 + HasherSize(h)

\* BlockSerializer::delete_offset()
DeleteOffset == SizeOfU64

\* BlockFlags::delete_flag()
DeleteFlag == STATE_FLAG_DELETE

\* a u32 as its 32 bits, the least significant first; ToBits is used for the
\* constants of the program, which are below 2^24
FlagWidth == 32

ToBits(v) ==
  [k \in 1..FlagWidth |-> IF k <= 24 THEN (v \div (2 ^ (k - 1))) % 2 ELSE 0]

\* a | b and a ^ b on u32
BitOr(a, b) == [k \in 1..FlagWidth |-> IF a[k] = 1 \/ b[k] = 1 THEN 1 ELSE 0]

BitXor(a, b) == [k \in 1..FlagWidth |-> IF a[k] # b[k] THEN 1 ELSE 0]

\* BlockFlags::set_delete_flag(value, flags)
SetDeleteFlagToggling(value, f) ==
  IF ~value THEN BitXor(f, ToBits(STATE_FLAG_DELETE)) ELSE f

SetDeleteFlag(value, f) ==
  LET f1 == BitOr(f, ToBits(STATE_FLAG_DELETE))
  IN IF ~value THEN BitXor(f1, ToBits(STATE_FLAG_DELETE)) ELSE f1

\* DataHeader::new(): the header vector of a new DataHeader
HeaderNew == <<0>>

(* ---------------------------------------------------------------------- *)
(* store.rs: helpers of Store                                              *)
(* ---------------------------------------------------------------------- *)
\* the bytes Store::write_file_descriptor writes, in order
FileDescriptorBytes ==
  ToLeBytes(STORE_VERSIONNUM, SizeOfU32)
    \o ToLeBytes(Len(STORE_VERSIONTAG), SizeOfU64)
    \o STORE_VERSIONTAG

\* Store::write_file_descriptor on a file just opened (cursor 0): three
\* writes, each at the cursor the one before left
WriteFileDescriptorShortLen(f) ==
  LET f1 == FileWrite(f, 0, ToLeBytes(STORE_VERSIONNUM, SizeOfU32))
      f2 == FileWrite(f1, SizeOfU32, ToLeBytes(Len(STORE_VERSIONTAG), SizeOfU32))
  IN FileWrite(f2, SizeOfU32 + SizeOfU32, STORE_VERSIONTAG)

WriteFileDescriptor(f) ==
  LET f1 == FileWrite(f, 0, ToLeBytes(STORE_VERSIONNUM, SizeOfU32))
      f2 == FileWrite(f1, SizeOfU32, ToLeBytes(Len(STORE_VERSIONTAG), SizeOfU64))
  IN FileWrite(f2, SizeOfU32 + SizeOfU64, STORE_VERSIONTAG)

\* Store::read_file_descriptor: the three reads from offset 0.  `huge` says
\* that the tag length read is 2^24 or more; the tag buffer is then
\* represented by the bytes read and one of its trailing zero bytes (it has
\* the UTF-8 validity of the real buffer and, like it, differs from the tag).
ReadFileDescriptor(f) ==
  LET got1 == FileRead(f, 0, 4)
      buff == FillBuffer(Zeros(4), got1)
      p1 == Len(got1)
      got2 == FileRead(f, p1, 8)
      sz_buff == FillBuffer(Zeros(8), got2)
      p2 == p1 + Len(got2)
      n == FromLeBytes(sz_buff)
      got3 == FileRead(f, p2, n)
      str_buff == IF n = Saturated THEN got3 \o <<0>> ELSE FillBuffer(Zeros(n), got3)
  IN [huge |-> n = Saturated,
      utf8 |-> IsUtf8(str_buff),
      value |-> <<FromLeBytes(buff), str_buff>>,
      data_start_address |-> p2 + Len(got3)]

\* Store::validate_file_descriptor(value)
ValidateIgnoringVersion(value) == value[2] = STORE_VERSIONTAG

ValidateFileDescriptor(value) == value = <<STORE_VERSIONNUM, STORE_VERSIONTAG>>

\* the loop of Store::index_blocks: the file cursor and curpos coincide at
\* the head of every iteration
RECURSIVE IndexLoop(_, _, _, _)
IndexLoop(h, f, curpos, addrs) ==
  IF curpos < Len(f)
    THEN LET got == FileRead(f, curpos, ReadAheadSize)
             buffer == FillBuffer(Zeros(ReadAheadSize), got)
             tbs == ReadAhead(h, buffer)
             next == curpos + Len(got) + tbs
         IN IndexLoop(h, f, next, Append(addrs, next))
    ELSE addrs

\* Store::index_blocks(startpos), entered with the cursor at
\* data_start_address: the address index it builds
IndexBlocks(h, f, dsa, startpos) ==
  LET curpos == IF startpos = 0 THEN dsa ELSE startpos
  IN IndexLoop(h, f, curpos, <<curpos>>)

\* self.block_addresses.get(index)
GetLenient(addrs, index) ==
  [some |-> index <= Len(addrs),
   value |-> IF index < Len(addrs) THEN addrs[index + 1] ELSE 0]

Get(addrs, index) ==
  [some |-> index < Len(addrs),
   value |-> IF index < Len(addrs) THEN addrs[index + 1] ELSE 0]

\* Store::write: the index after a block was written with the cursor going
\* from `before` to `after`
PushTwice(addrs, before, after) == Append(Append(addrs, before), after)

PushAddress(addrs, before, after) == Append(addrs, after)

\* Store::len()
StoreLen(addrs) == Len(addrs)

\* Store::block_address(index)
BlockAddress(addrs, index) == Get(addrs, index)

(* ---------------------------------------------------------------------- *)
(* Inputs                                                                  *)
(* ---------------------------------------------------------------------- *)
\* payloads handed to Store::write: the empty one and one that is not
Payloads == {<<>>, <<7>>}

\* block indices handed to seek, read_at_index and delete_block
Indices == 0..MaxAppends

\* lengths of the buffers handed to read and read_at_index
BufferLens == {0, 1}

\* what the path holds before the program runs: nothing, or a file
NoFile == <<>>
VersionTwoFile == <<2, 0, 0, 0>> \o SubSeq(FileDescriptorBytes, 5, 31)
WrongTagFile == SubSeq(FileDescriptorBytes, 1, 30) \o <<50>>
NotUtf8File == SubSeq(FileDescriptorBytes, 1, 30) \o <<255>>
HugeTagLenFile == <<1, 0, 0, 0>> \o [i \in 1..8 |-> 255] \o STORE_VERSIONTAG
StaleFile == FileDescriptorBytes \o [i \in 1..60 |-> 9]
InitialFiles == {VersionTwoFile, WrongTagFile, NotUtf8File, HugeTagLenFile}

(* ---------------------------------------------------------------------- *)
(* State                                                                   *)
(* ---------------------------------------------------------------------- *)
VARIABLES
  file,               \* the bytes of the file at the path
  exists,             \* whether the path holds a file
  hasher,             \* the BlockHasher type parameter T of the program
  st,                 \* "none": no Store; "open": a Store value is alive
  writable,           \* whether Store.file was opened with write access
  pos,                \* the cursor of Store.file
  data_start_address, \* Store.data_start_address
  block_addresses,    \* Store.block_addresses
  db,                 \* the caller's DataHeader, filled by read_data_header and
                      \* held for the read of the payload that follows
  data,               \* the caller's buffer as the last read or read_at_index
                      \* left it
  cursorAt,           \* where the caller has the cursor: "block" after open or
                      \* seek put it at an indexed address, "header" after
                      \* read_data_header, "elsewhere" otherwise
  result,             \* what it returned
  appends,            \* history: the number of blocks written so far
  written,            \* history: the blocks written since the last create
  trail,              \* history: the calls since the last create
  trailIdx,           \* history: the block index the trail is about
  header,             \* DataHeader.header of the caller's DataHeader: the bytes
                      \* its last serialize left
  tflag,              \* the u32 flags value the caller hands to set_delete_flag
  flags,              \* the u32 set_delete_flag returned to the caller
  tbs                 \* what read_ahead returned to the caller

vars ==
  <<file, exists, hasher, st, writable, pos, data_start_address,
    block_addresses, db, data, cursorAt, result, appends, written,
    trail, trailIdx, header, tflag, flags, tbs>>

storeVars == <<st, writable, pos, data_start_address, block_addresses>>

\* what the functions of data_header.rs, called on their own, work on
headerVars == <<header, tflag, flags, tbs>>

(* ---------------------------------------------------------------------- *)
(* History of the calls, kept while it is a prefix of a scenario           *)
(* ---------------------------------------------------------------------- *)
Scenarios ==
  { <<"create", "write", "seek", "read_data_header">>,
    <<"create", "write", "delete_block", "seek", "read_data_header">>,
    <<"create", "write", "delete_block", "close", "open", "seek", "read_data_header">>,
    <<"create", "write", "close", "open", "read_data_header", "read">>,
    <<"create", "close", "open">> }

ScenarioPrefixes ==
  UNION {{SubSeq(s, 1, n) : n \in 1..Len(s)} : s \in Scenarios}

\* the trail after a call of `op`; successive writes count as one entry
TrailAfter(op) ==
  IF op = "create" THEN <<"create">>
  ELSE IF op = "write" /\ trail = <<"create", "write">> THEN trail
  ELSE IF Append(trail, op) \in ScenarioPrefixes THEN Append(trail, op)
  ELSE <<"other">>

\* the same for a call with a block index: the index must be one of a
\* block written, and the same one all along the trail
TrailAfterIdx(op, index) ==
  IF index < Len(written) /\ (trailIdx = -1 \/ trailIdx = index)
    THEN TrailAfter(op)
    ELSE <<"other">>

(* ---------------------------------------------------------------------- *)
(* Initial state: no Store yet, the path empty or holding some file        *)
(* ---------------------------------------------------------------------- *)
\* the state before the program runs, the path holding `f` when `e`
Start(e, f) ==
  /\ exists = e
  /\ file = f
  /\ hasher \in Hashers
  /\ st = "none"
  /\ writable = FALSE
  /\ pos = 0
  /\ data_start_address = 0
  /\ block_addresses = <<>>
  /\ db = DataHeaderNew
  /\ data = <<>>
  /\ cursorAt = "elsewhere"
  /\ result = "Ok"
  /\ appends = 0
  /\ written = <<>>
  /\ trail = <<"other">>
  /\ trailIdx = -1
  /\ header = HeaderNew
  /\ tflag = ToBits(STATE_FLAG_ALLOC)
  /\ flags = ToBits(STATE_FLAG_ALLOC)
  /\ tbs = 0

\* the path holds nothing, or a file that is no store, or a damaged one
Init == Start(FALSE, NoFile) \/ \E f \in InitialFiles : Start(TRUE, f)

\* the path holds an older store file, longer than a preamble
InitOverExisting == Start(TRUE, StaleFile)

\* the call just made, what it returned and the trail it leaves
Returned(op, index, res, newTrail) ==
  /\ cursorAt' = IF op \in {"open", "seek"} /\ res = "Ok" THEN "block"
                 ELSE IF op = "read_data_header" THEN "header"
                 ELSE "elsewhere"
  /\ result' = res
  /\ trail' = newTrail
  /\ trailIdx' = IF newTrail = <<"other">> \/ op = "create" THEN -1
                 ELSE IF index # -1 THEN index ELSE trailIdx

\* no Store value: the fields of the model are at their defaults
NoStore ==
  /\ st' = "none"
  /\ writable' = FALSE
  /\ pos' = 0
  /\ data_start_address' = 0
  /\ block_addresses' = <<>>

(* ---------------------------------------------------------------------- *)
(* Store::create and Store::new                                            *)
(* ---------------------------------------------------------------------- *)
\* Store::create(filename, hasher): the file is opened for reading and
\* writing, created when missing, and keeps the bytes it has.  A behaviour
\* follows one store file: it is created before the first block is written.
Create ==
  /\ st = "none"
  /\ UNCHANGED headerVars
  /\ appends = 0
  /\ file' = WriteFileDescriptor(file)
  /\ exists' = TRUE
  /\ st' = "open"
  /\ writable' = TRUE
  /\ pos' = SizeOfU32 + SizeOfU64 + Len(STORE_VERSIONTAG)
  /\ data_start_address' = 0
  /\ block_addresses' = <<>>
  /\ db' = DataHeaderNew
  /\ data' = <<>>
  /\ written' = <<>>
  /\ Returned("create", -1, "Ok", <<"create">>)
  /\ UNCHANGED <<hasher, appends>>

\* Store::new(filename, hasher): File::open gives a read-only handle
Open ==
  /\ st = "none"
  /\ UNCHANGED headerVars
  /\ db' = DataHeaderNew
  /\ data' = <<>>
  /\ UNCHANGED <<file, exists, hasher, appends, written>>
  /\ IF ~exists
       THEN NoStore /\ Returned("open", -1, "IoError", TrailAfter("open"))
       ELSE LET fd == ReadFileDescriptor(file)
                proceed ==
                  IF ~fd.utf8
                    THEN NoStore /\ Returned("open", -1, "VersionInfo", TrailAfter("open"))
                  ELSE IF ~ValidateFileDescriptor(fd.value)
                    THEN NoStore
                         /\ Returned("open", -1, "InvalidDescriptor", TrailAfter("open"))
                  ELSE /\ st' = "open"
                       /\ writable' = FALSE
                       /\ data_start_address' = fd.data_start_address
                       /\ block_addresses' =
                            IndexBlocks(hasher, file, fd.data_start_address, 0)
                       /\ pos' = fd.data_start_address
                       /\ Returned("open", -1, "Ok", TrailAfter("open"))
            IN \/ proceed
               \/ /\ fd.huge
                  /\ NoStore
                  /\ Returned("open", -1, "Panic", TrailAfter("open"))

\* the Store value is dropped, which closes the file
Close ==
  /\ st = "open"
  /\ UNCHANGED headerVars
  /\ NoStore
  /\ Returned("close", -1, "Ok", TrailAfter("close"))
  /\ db' = DataHeaderNew
  /\ data' = <<>>
  /\ UNCHANGED <<file, exists, hasher, appends, written>>

(* ---------------------------------------------------------------------- *)
(* impl Write for Store                                                    *)
(* ---------------------------------------------------------------------- *)
\* Store::write(buf)
Write(buf) ==
  /\ st = "open"
  /\ UNCHANGED headerVars
  /\ appends < MaxAppends
  /\ db' = DataHeaderNew
  /\ data' = <<>>
  /\ UNCHANGED <<exists, hasher, st, writable, data_start_address>>
  /\ IF ~writable
       THEN /\ Returned("write", -1, "IoError", TrailAfter("write"))
            /\ UNCHANGED <<file, pos, block_addresses, appends, written>>
       ELSE LET bd == Serialize(hasher, DataHeaderNew, buf)
                f1 == FileWrite(file, pos, bd)
                p1 == pos + Len(bd)
                f2 == FileWrite(f1, p1, buf)
                p2 == p1 + Len(buf)
            IN /\ file' = f2
               /\ pos' = p2
               /\ block_addresses' = PushAddress(block_addresses, pos, p2)
               /\ appends' = appends + 1
               /\ written' =
                    Append(written, [start |-> pos, eof |-> Len(file), payload |-> buf])
               /\ Returned("write", -1, "Ok", TrailAfter("write"))

\* Store::flush(): File::flush of std does nothing and returns Ok; the
\* cursor and the caller's buffers are as they were
Flush ==
  /\ st = "open"
  /\ result' = "Ok"
  /\ trail' = TrailAfter("flush")
  /\ trailIdx' = -1
  /\ UNCHANGED headerVars
  /\ UNCHANGED <<file, exists, hasher, st, writable, pos, data_start_address,
                 block_addresses, db, data, cursorAt, appends, written>>

(* ---------------------------------------------------------------------- *)
(* impl StoreIO for Store                                                  *)
(* ---------------------------------------------------------------------- *)
\* Store::delete_block(index)
DeleteBlock(index) ==
  /\ st = "open"
  /\ UNCHANGED headerVars
  /\ LET address == Get(block_addresses, index)
     IN IF ~address.some
          THEN /\ Returned("delete_block", index, "OutOfBounds",
                           TrailAfterIdx("delete_block", index))
               /\ UNCHANGED <<file, pos>>
        ELSE IF ~writable
          THEN /\ pos' = address.value + DeleteOffset
               /\ Returned("delete_block", index, "IoError",
                           TrailAfterIdx("delete_block", index))
               /\ UNCHANGED file
        ELSE /\ pos' = 0
             /\ Returned("delete_block", index, "Ok",
                         TrailAfterIdx("delete_block", index))
             /\ file' = FileWrite(file, address.value + DeleteOffset,
                                  ToLeBytes(DeleteFlag, SizeOfU32))
  /\ db' = DataHeaderNew
  /\ data' = <<>>
  /\ UNCHANGED <<exists, hasher, st, writable, data_start_address, block_addresses,
                 appends, written>>

\* Store::seek(index)
Seek(index) ==
  /\ st = "open"
  /\ UNCHANGED headerVars
  /\ LET a == Get(block_addresses, index)
     IN IF a.some
          THEN /\ pos' = a.value
               /\ Returned("seek", index, "Ok", TrailAfterIdx("seek", index))
          ELSE /\ pos' = pos
               /\ Returned("seek", index, "OutOfBounds", TrailAfterIdx("seek", index))
  /\ db' = DataHeaderNew
  /\ data' = <<>>
  /\ UNCHANGED <<file, exists, hasher, st, writable, data_start_address,
                 block_addresses, appends, written>>

\* Store::read_data_header(data_header); the caller reads a header where
\* open or seek has put the cursor
ReadDataHeader ==
  /\ st = "open"
  /\ UNCHANGED headerVars
  /\ cursorAt = "block"
  /\ data' = <<>>
  /\ UNCHANGED <<file, exists, hasher, st, writable, data_start_address,
                 block_addresses, appends, written>>
  /\ LET got == FileRead(file, pos, HeaderSize(hasher))
         db_buf == FillBuffer(Zeros(HeaderSize(hasher)), got)
         parsed == Deserialize(hasher, db_buf)
     IN /\ pos' = pos + Len(got)
        /\ db' = parsed.hdr
        /\ Returned("read_data_header", -1,
                    IF parsed.ok THEN "Ok" ELSE "HashMismatch",
                    TrailAfter("read_data_header"))

\* Store::read(data), the buffer handed in being n zero bytes; the caller
\* reads a payload after the header it has just read
Read(n) ==
  /\ st = "open"
  /\ UNCHANGED headerVars
  /\ cursorAt = "header"
  /\ UNCHANGED <<file, exists, hasher, st, writable, data_start_address,
                 block_addresses, db, appends, written>>
  /\ LET got == FileRead(file, pos, n)
     IN /\ pos' = pos + Len(got)
        /\ data' = FillBuffer(Zeros(n), got)
        /\ Returned("read", -1, "Ok", TrailAfter("read"))

\* Store::read_at_index(index, data), the buffer handed in being n zero bytes
ReadAtIndex(index, n) ==
  /\ st = "open"
  /\ UNCHANGED headerVars
  /\ LET a == Get(block_addresses, index)
     IN IF a.some
          THEN LET got == FileRead(file, a.value, n)
               IN /\ pos' = a.value + Len(got)
                  /\ data' = FillBuffer(Zeros(n), got)
                  /\ Returned("read_at_index", index, "Ok", <<"other">>)
          ELSE /\ pos' = pos
               /\ data' = <<>>
               /\ Returned("read_at_index", index, "OutOfBounds", <<"other">>)
  /\ db' = DataHeaderNew
  /\ UNCHANGED <<file, exists, hasher, st, writable, data_start_address,
                 block_addresses, appends, written>>

(* ---------------------------------------------------------------------- *)
(* The program                                                             *)
(* ---------------------------------------------------------------------- *)
Next ==
  \/ Create
  \/ Open
  \/ Close
  \/ \E buf \in Payloads : Write(buf)
  \/ Flush
  \/ \E index \in Indices : DeleteBlock(index)
  \/ \E index \in Indices : Seek(index)
  \/ ReadDataHeader
  \/ \E n \in BufferLens : Read(n)
  \/ \E index \in Indices, n \in BufferLens : ReadAtIndex(index, n)

Spec == Init /\ [][Next]_vars

SpecOverExisting == InitOverExisting /\ [][Next]_vars

(* ---------------------------------------------------------------------- *)
(* The program on a device whose writes may fail                           *)
(* ---------------------------------------------------------------------- *)
\* Store::write(buf) when self.file.write of the header returns an error:
\* the `?` returns it before anything else is done
WriteFailingHeader(buf) ==
  /\ st = "open"
  /\ writable
  /\ appends < MaxAppends
  /\ db' = DataHeaderNew
  /\ data' = <<>>
  /\ Returned("write", -1, "IoError", <<"other">>)
  /\ UNCHANGED headerVars
  /\ UNCHANGED <<file, exists, hasher, st, writable, pos, data_start_address,
                 block_addresses, appends, written>>

\* Store::write(buf) when the header was written and self.file.write of the
\* payload, which has bytes to write, returns an error: the error is kept in
\* retval, the cursor is pushed, and retval is returned
WriteFailingPayload(buf) ==
  /\ st = "open"
  /\ writable
  /\ appends < MaxAppends
  /\ Len(buf) > 0
  /\ db' = DataHeaderNew
  /\ data' = <<>>
  /\ LET bd == Serialize(hasher, DataHeaderNew, buf)
         p1 == pos + Len(bd)
     IN /\ file' = FileWrite(file, pos, bd)
        /\ pos' = p1
        /\ block_addresses' = PushAddress(block_addresses, pos, p1)
  /\ appends' = appends + 1
  /\ Returned("write", -1, "IoError", <<"other">>)
  /\ UNCHANGED headerVars
  /\ UNCHANGED <<exists, hasher, st, writable, data_start_address, written>>

NextIoFault ==
  \/ Next
  \/ \E buf \in Payloads : WriteFailingHeader(buf)
  \/ \E buf \in Payloads : WriteFailingPayload(buf)

SpecIoFault == Init /\ [][NextIoFault]_vars

(* ---------------------------------------------------------------------- *)
(* data_header.rs called on its own: a caller holds a DataHeader `db`, a   *)
(* payload `data` and a flags value `tflag`, and calls the functions of    *)
(* BlockSerializer and BlockFlags                                          *)
(* ---------------------------------------------------------------------- *)
\* payloads handed to serialize: those handed to Store::write and those of
\* the tests of data_header.rs
HeaderPayloads == Payloads \cup {<<0>>, <<0, 0, 1, 0>>}

\* flags values handed to set_delete_flag: every choice of bits 0, 1, 2, 15,
\* 30 and 31, the other bits clear
FlagInputs ==
  {[k \in 1..FlagWidth |-> IF k \in s THEN 1 ELSE 0] : s \in SUBSET {1, 2, 3, 16, 31, 32}}

\* what is left alone by the calls of data_header.rs
apartFromHeader ==
  <<file, exists, hasher, st, writable, pos, data_start_address,
    block_addresses, data, cursorAt, appends, written, trail, trailIdx>>

\* no Store; the caller has a DataHeader from DataHeader::new() whose pub
\* state_flag it may have set, a payload and a flags value
InitHeader ==
  /\ exists = FALSE
  /\ file = NoFile
  /\ hasher \in Hashers
  /\ st = "none"
  /\ writable = FALSE
  /\ pos = 0
  /\ data_start_address = 0
  /\ block_addresses = <<>>
  /\ db \in {[DataHeaderNew EXCEPT !.state_flag = sf] :
              sf \in {STATE_FLAG_ALLOC, STATE_FLAG_DELETE}}
  /\ data \in HeaderPayloads
  /\ cursorAt = "elsewhere"
  /\ result = "Ok"
  /\ appends = 0
  /\ written = <<>>
  /\ trail = <<"other">>
  /\ trailIdx = -1
  /\ header = HeaderNew
  /\ tflag \in FlagInputs
  /\ flags = ToBits(STATE_FLAG_ALLOC)
  /\ tbs = 0

\* db.serialize(&data)
SerializeCall ==
  /\ header' = Serialize(hasher, db, data)
  /\ UNCHANGED <<apartFromHeader, db, result, tflag, flags, tbs>>

\* db.deserialize(&header), on a vector long enough for the three fields
\* (data[12..20] of a shorter one panics)
DeserializeCall ==
  /\ Len(header) >= SizeOfU64 + SizeOfU32 + SizeOfU64
  /\ LET parsed == Deserialize(hasher, header)
     IN /\ db' = parsed.hdr
        /\ result' = IF parsed.ok THEN "Ok" ELSE "HashMismatch"
  /\ UNCHANGED <<apartFromHeader, header, tflag, flags, tbs>>

\* DataHeader::read_ahead(&buffer), the buffer holding the first
\* read_ahead_size() bytes of a serialized header
ReadAheadCall ==
  /\ Len(header) >= ReadAheadSize
  /\ tbs' = ReadAhead(hasher, SubSeq(header, 1, ReadAheadSize))
  /\ UNCHANGED <<apartFromHeader, db, result, header, tflag, flags>>

\* DataHeader::set_delete_flag(value, tflag)
SetDeleteFlagCall(value) ==
  /\ flags' = SetDeleteFlag(value, tflag)
  /\ UNCHANGED <<apartFromHeader, db, result, header, tflag, tbs>>

NextHeader ==
  \/ SerializeCall
  \/ DeserializeCall
  \/ ReadAheadCall
  \/ \E value \in BOOLEAN : SetDeleteFlagCall(value)

SpecHeader == InitHeader /\ [][NextHeader]_vars

(* ---------------------------------------------------------------------- *)
(* Properties                                                              *)
(* ---------------------------------------------------------------------- *)
\* the store was created and then only written to
OnlyAppended == trail \in {<<"create">>, <<"create", "write">>}

\* the address index holds, for every block written since create, the offset
\* its header was written at
IndexHoldsBlockStarts ==
  \A i \in 1..Len(written) :
    /\ i <= Len(block_addresses)
    /\ block_addresses[i] = written[i].start

\* C1: after create and N >= 1 appends and nothing else, block_address(i) is
\* the offset of the first header byte of block i, for every i < N.
C1_IndexPointsAtBlockStarts == OnlyAppended => IndexHoldsBlockStarts

\* C2: while a Store is alive the 31 preamble bytes stay as they were written,
\* and every append wrote its block starting at what was then the end of the
\* file, wherever the cursor had been left.
C2_AppendOnly ==
  /\ st = "open" => SubSeq(file, 1, Len(FileDescriptorBytes)) = FileDescriptorBytes
  /\ \A i \in 1..Len(written) : written[i].start = written[i].eof

\* C3: after create, appends and delete_block(i), seek_to(i) and read_header
\* succeed and the header read has bit 0 of state_flag set; the same after the
\* store was closed and reopened in between.
C3_TombstonePersistence ==
  trail \in { <<"create", "write", "delete_block", "seek", "read_data_header">>,
              <<"create", "write", "delete_block", "close", "open", "seek",
                "read_data_header">> }
    => result = "Ok" /\ db.state_flag % 2 = 1

\* C4: a successful delete_block(i) leaves the file length, the address index
\* and every byte of the file other than the four at block_address(i) + 8
\* as they were.
C4_DeleteChangesOnlyFlag ==
  [][\A i \in Indices :
       DeleteBlock(i) /\ result' = "Ok" =>
         /\ Len(file') = Len(file)
         /\ block_addresses' = block_addresses
         /\ \A k \in 1..Len(file) :
              (k <= block_addresses[i + 1] + DeleteOffset
                 \/ k > block_addresses[i + 1] + DeleteOffset + SizeOfU32)
                => file'[k] = file[k]]_vars

\* C5: after create and appends of p_0 .. p_(N-1), seek_to(i) and read_header
\* succeed for i < N and the header read has size_data = len(p_i).
C5_HeaderReadAfterAppend ==
  trail = <<"create", "write", "seek", "read_data_header">>
    => result = "Ok" /\ db.size_data = Len(written[trailIdx + 1].payload)

\* C6: after create, appends, close and open, read_header succeeds with
\* size_data = len(p_0) and state_flag = 0, and read_payload into a buffer of
\* size_data bytes then returns the bytes of p_0.
C6_WriteReopenRead ==
  /\ trail \in { <<"create", "write", "close", "open", "read_data_header">>,
                 <<"create", "write", "close", "open", "read_data_header", "read">> }
       => db.size_data = Len(written[1].payload) /\ db.state_flag = 0
  /\ trail = <<"create", "write", "close", "open", "read_data_header">>
       => result = "Ok"
  /\ trail = <<"create", "write", "close", "open", "read_data_header", "read">>
       /\ Len(data) = db.size_data
       => result = "Ok" /\ data = written[1].payload

\* C7: after create, N appends, close and open, the index built by the scan
\* holds at i the offset the writer wrote the first header byte of block i at,
\* for every i < N.
C7_ScannerAgreesWithWriter ==
  trail \in {<<"create", "write", "close", "open">>, <<"create", "close", "open">>}
    => result = "Ok" /\ IndexHoldsBlockStarts

\* C8: on a created store that was not reopened, len() is the number of blocks
\* appended.
C8_LenCountsAppends ==
  st = "open" /\ writable => StoreLen(block_addresses) = Len(written)

C8_Witness ==
  st = "open" /\ writable /\ Len(written) = 2 /\ StoreLen(block_addresses) = 2

\* C9: seek, read_at_index and delete_block with an index >= len() return
\* OutOfBounds and leave the file, the cursor and the index as they were; with
\* an index < len() they do not return OutOfBounds.
C9_OutOfRange ==
  [][\A i \in Indices :
       LET called == Seek(i) \/ DeleteBlock(i) \/ \E n \in BufferLens : ReadAtIndex(i, n)
       IN IF i >= StoreLen(block_addresses)
            THEN \/ /\ result' = "OutOfBounds"
                    /\ file' = file
                    /\ pos' = pos
                    /\ block_addresses' = block_addresses
                 \/ ~called
            ELSE result' # "OutOfBounds" \/ ~called]_vars

C9_Witness ==
  result = "OutOfBounds" /\ StoreLen(block_addresses) >= 1 /\ pos > 0

\* C10: open returns a Store exactly when the file starts with the preamble
\* create writes; when the (version, tag) pair read from the file differs
\* from (1, "FSTOREV.01BINARYR01") it returns the invalid-descriptor error.
C10_DescriptorValidation ==
  [][Open /\ exists =>
       LET fd == ReadFileDescriptor(file)
           canonical ==
             /\ Len(file) >= Len(FileDescriptorBytes)
             /\ SubSeq(file, 1, Len(FileDescriptorBytes)) = FileDescriptorBytes
       IN /\ canonical => result' = "Ok" /\ st' = "open"
          /\ ~canonical => result' # "Ok" /\ st' = "none"
          /\ ~canonical /\ fd.utf8 /\ result' # "Panic"
               => result' = "InvalidDescriptor"]_vars

C10_Witness ==
  st = "none" /\ result = "InvalidDescriptor" /\ file = VersionTwoFile

\* the call before was an open that returned a Store, in a behaviour that
\* began with create
OpenedNow ==
  st = "open" /\ result = "Ok" /\ trail[Len(trail)] = "open"

\* C11: opening a file that create has just written succeeds, and the Store
\* opened has data_start_address = 31 (4 + 8 + 19).
C11_PreambleRoundTrip ==
  trail = <<"create", "close", "open">> =>
    /\ result = "Ok"
    /\ st = "open"
    /\ data_start_address = 31
    /\ data_start_address = SizeOfU32 + SizeOfU64 + Len(STORE_VERSIONTAG)

C11_Witness ==
  trail = <<"create", "close", "open">> /\ st = "open" /\ data_start_address = 31

\* C12: the Store create returns has data_start_address = 31, the offset of
\* the end of the preamble, an empty address index, and the cursor at 31.
C12_StateAfterCreate ==
  trail = <<"create">> =>
    /\ data_start_address = 31
    /\ block_addresses = <<>>
    /\ pos = 31

\* C13: after create the file is exactly the 31 bytes of the preamble,
\* whatever the path held before.
C13_CreateTruncates ==
  trail = <<"create">> => Len(file) = 31 /\ file = FileDescriptorBytes

\* C14: on a Store returned by open, write succeeds and the block is in the
\* file afterwards; delete_block(i) with i < len() succeeds and the flag of
\* the block at block_address(i) has bit 0 set afterwards.
C14_OpenYieldsWritable ==
  [][/\ \A buf \in Payloads :
          OpenedNow /\ Write(buf) =>
            LET blk == Serialize(hasher, DataHeaderNew, buf) \o buf
            IN /\ result' = "Ok"
               /\ \E k \in 0..Len(file') :
                    /\ k + Len(blk) <= Len(file')
                    /\ SubSeq(file', k + 1, k + Len(blk)) = blk
     /\ \A i \in Indices :
          OpenedNow /\ i < StoreLen(block_addresses) /\ DeleteBlock(i) =>
            LET a == block_addresses[i + 1] + DeleteOffset
            IN /\ result' = "Ok"
               /\ Len(file') >= a + SizeOfU32
               /\ FromLeBytes(SubSeq(file', a + 1, a + SizeOfU32)) % 2 = 1]_vars

\* the digest width D the header layout is stated with: 32 for the
\* cryptographic hasher, 0 for the null hasher
DigestWidth(h) == IF h = "B3" THEN 32 ELSE 0

\* C15: for every hasher and payload, serialize emits exactly size() bytes,
\* size() = 20 + D, and the digest the hasher produces has exactly D bytes.
C15_HeaderWidth ==
  [][SerializeCall =>
       /\ Len(header') = HeaderSize(hasher)
       /\ HeaderSize(hasher) = 20 + DigestWidth(hasher)
       /\ Len(Hash(hasher, data)) = DigestWidth(hasher)]_vars

\* C16: read_ahead on the first 8 bytes of a serialized header returns
\* size_data + 12 + D, which is the distance from the end of those 8 bytes to
\* the first byte after the block (header and payload).
C16_ReadAheadArithmetic ==
  [][ReadAheadCall /\ header = Serialize(hasher, db, data) =>
       /\ tbs' = FromLeBytes(SubSeq(header, 1, ReadAheadSize)) + 12 + DigestWidth(hasher)
       /\ tbs' = (Len(header) - ReadAheadSize) + Len(data)]_vars

\* C17: deserializing the bytes serialize produced for a payload succeeds
\* and yields the size_data, state_flag and address_next of the header that
\* was serialized, the digest in the bytes being that of the payload.
C17_HeaderRoundTrip ==
  [][DeserializeCall /\ header = Serialize(hasher, db, data) =>
       /\ result' = "Ok"
       /\ db' = db
       /\ SubSeq(header, 21, Len(header)) = Hash(hasher, data)]_vars

\* C18: with the cryptographic hasher, reading the header of a block that
\* was appended and not modified since does not report a digest mismatch.
C18_IntegrityDetection ==
  trail = <<"create", "write", "close", "open", "read_data_header">> /\ hasher = "B3"
    => result # "HashMismatch"

\* C19: set_delete_flag(true, f) is f with bit 0 set, set_delete_flag(false,
\* f) is f with bit 0 clear; bits 1..31 of the result are those of f.
C19_DeleteFlagToggle ==
  [][\A value \in BOOLEAN :
       SetDeleteFlagCall(value) =>
         /\ flags'[1] = (IF value THEN 1 ELSE 0)
         /\ \A k \in 2..FlagWidth : flags'[k] = tflag[k]]_vars

C19_Witness ==
  /\ tflag[1] = 1 /\ tflag[2] = 0 /\ tflag[32] = 1
  /\ flags[1] = 0 /\ flags[2] = 0 /\ flags[32] = 1

\* C20: after the open of a file holding the n >= 0 blocks appended since
\* create, the address index has n + 1 entries, the first data_start_address
\* and the last the length of the file.
C20_IndexSizeAfterOpen ==
  /\ st = "open"
  /\ trail \in {<<"create", "close", "open">>, <<"create", "write", "close", "open">>}
  => /\ StoreLen(block_addresses) = Len(written) + 1
     /\ block_addresses[1] = data_start_address
     /\ block_addresses[StoreLen(block_addresses)] = Len(file)

\* C21: the scan of index_blocks ends, and every iteration moves cur on by
\* at least 20 + D: consecutive entries of the index open builds are at
\* least 20 + D apart.
C21_IndexingAdvances ==
  [][Open /\ result' = "Ok" =>
       \A i \in 1..(Len(block_addresses') - 1) :
         block_addresses'[i + 1] - block_addresses'[i] >= 20 + DigestWidth(hasher)]_vars

\* C22: a successful append of p at the end of the file grows the file by
\* exactly 20 + D + len(p) bytes: size_data = len(p), state_flag = 0,
\* address_next = 0, the digest of p, then the bytes of p.
C22_BlockLayoutOnAppend ==
  [][\A buf \in Payloads :
       Write(buf) /\ result' = "Ok" /\ pos = Len(file) =>
         LET at == Len(file)
             D == DigestWidth(hasher)
         IN /\ Len(file') = at + 20 + D + Len(buf)
            /\ SubSeq(file', 1, at) = file
            /\ SubSeq(file', at + 1, at + 8) = ToLeBytes(Len(buf), SizeOfU64)
            /\ SubSeq(file', at + 9, at + 12) = ToLeBytes(STATE_FLAG_ALLOC, SizeOfU32)
            /\ SubSeq(file', at + 13, at + 20) = ToLeBytes(DEFAULT_ADDR_NEXT, SizeOfU64)
            /\ D > 0 => SubSeq(file', at + 21, at + 20 + D) = Hash(hasher, buf)
            /\ SubSeq(file', at + 20 + D + 1, Len(file')) = buf]_vars

\* C23: read_data_header with fewer than 20 + D bytes between the cursor and
\* the end of the file returns the truncated-header error.
C23_TruncatedHeader ==
  [][ReadDataHeader /\ Len(file) - pos < 20 + DigestWidth(hasher) =>
       result' = "TruncatedHeader"]_vars

\* C24: seek, read_data_header, read, read_at_index, delete_block and flush
\* leave the address index as it was (len and block_address only read it);
\* a successful write appends exactly one entry to it.
C24_IndexFrame ==
  [][/\ \/ block_addresses' = block_addresses
        \/ ~(\/ ReadDataHeader
             \/ Flush
             \/ \E n \in BufferLens : Read(n)
             \/ \E i \in Indices :
                  \/ Seek(i)
                  \/ DeleteBlock(i)
                  \/ \E n \in BufferLens : ReadAtIndex(i, n))
     /\ \/ /\ StoreLen(block_addresses') = StoreLen(block_addresses) + 1
           /\ SubSeq(block_addresses', 1, Len(block_addresses)) = block_addresses
        \/ result' # "Ok"
        \/ ~(\E buf \in Payloads : Write(buf))]_vars

C24_Witness ==
  /\ st = "open" /\ writable
  /\ StoreLen(block_addresses) = 2
  /\ result = "Ok" /\ cursorAt = "block" /\ pos = block_addresses[2]

\* C25: while a Store is alive its address index is strictly increasing,
\* every entry is at least data_start_address and at most the file length.
C25_IndexOrdered ==
  st = "open" =>
    /\ \A i \in 1..(Len(block_addresses) - 1) :
         block_addresses[i] < block_addresses[i + 1]
    /\ \A i \in 1..Len(block_addresses) :
         /\ block_addresses[i] >= data_start_address
         /\ block_addresses[i] <= Len(file)

\* C26: a write that returns an error, the write of the header or that of
\* the payload having failed, leaves the address index as it was.
C26_FailedAppendKeepsIndex ==
  [][\A buf \in Payloads :
       /\ Write(buf) \/ WriteFailingHeader(buf) \/ WriteFailingPayload(buf)
       /\ result' # "Ok"
       => block_addresses' = block_addresses]_vars

====
